---- MODULE Spec2Model ----
(***************************************************************************)
(* Model of src/tulpar.py: the Tulpar reconnaissance pipeline.             *)
(*                                                                         *)
(* One run of Tulpar.run() is modelled as a state machine.  The in-memory  *)
(* collections of the Tulpar object are the state; every await point of    *)
(* the coroutines is a step.  The outside world (the enumerator process,   *)
(* the web servers, the archive API, the file system) answers              *)
(* nondeterministically from small sets.                                   *)
(*                                                                         *)
(* Strings are sequences of atoms.  An atom is a character or a run of     *)
(* characters that no string of the model splits, so that prefix, suffix   *)
(* and substring tests on atom sequences agree with the tests on the       *)
(* character strings they stand for.                                       *)
(***************************************************************************)
EXTENDS Integers, Sequences, FiniteSets, TLC

(***************************************************************************)
(* Bounds of the model.                                                    *)
(***************************************************************************)
\* lines read from the enumerator's stdout in one run
MaxLines == 2
\* lines of the enumerator's result file
MaxFileLines == 1
\* <script src> occurrences in one page
MaxScripts == 1
\* literals matched in one script body
MaxLiterals == 1
\* payloads of each vulnerability class that are used
MaxPayloads == 1
\* parameter names that are used
MaxParams == 1
\* probe responses of one run that carry a vulnerability marker
MaxMatches == 2
\* snapshots the archive yields
MaxSnapshots == 1

(***************************************************************************)
(* Strings.                                                                *)
(***************************************************************************)
None == "None"

\* the value of a loop variable while its loop is at no host
NoUrl == <<"None">>

Whitespace == {" ", "\n"}

StartsWith(s, p) ==
    /\ Len(s) >= Len(p)
    /\ SubSeq(s, 1, Len(p)) = p

\* s[i:].startswith(p), i counted from 1
HasAt(s, i, p) ==
    /\ i + Len(p) - 1 <= Len(s)
    /\ SubSeq(s, i, i + Len(p) - 1) = p

\* str.endswith
EndsWith(s, suf) ==
    /\ Len(s) >= Len(suf)
    /\ SubSeq(s, Len(s) - Len(suf) + 1, Len(s)) = suf

\* needle in s
Contains(s, needle) ==
    \E i \in 1..(Len(s) - Len(needle) + 1) : SubSeq(s, i, i + Len(needle) - 1) = needle

\* str.strip
RECURSIVE Strip(_)
Strip(s) ==
    IF s = <<>> THEN s
    ELSE IF Head(s) \in Whitespace THEN Strip(Tail(s))
    ELSE IF s[Len(s)] \in Whitespace THEN Strip(SubSeq(s, 1, Len(s) - 1))
    ELSE s

\* smallest index at or after from whose atom is in chars; Len(s) + 1 when none
FindAny(s, chars, from) ==
    LET hits == {i \in from..Len(s) : s[i] \in chars}
    IN  IF hits = {} THEN Len(s) + 1
        ELSE CHOOSE i \in hits : \A j \in hits : i <= j

RECURSIVE SeqToSet(_)
SeqToSet(s) == IF s = <<>> THEN {} ELSE {Head(s)} \cup SeqToSet(Tail(s))

\* sequences over S of length at most n
SeqsUpTo(S, n) == UNION {[1..k -> S] : k \in 0..n}

(***************************************************************************)
(* urllib.parse, on atom sequences.                                        *)
(***************************************************************************)
\* atoms that hold a character outside letters, digits, "+", "-", "."
NotSchemeAtoms ==
    {":", "/", "?", "#", "=", "&", " ", "\n", "<script>", "</script>",
     "alert(1)", "{{", "}}", "7*7", "root:", "[extensions]", "x:0:0:"}

\* atoms whose first character is no letter
NotAlphaStart == NotSchemeAtoms \cup {".", "..", "49", "7777777", "1", "2"}

\* urlsplit's scheme test: the text before the first ":" when it is a scheme
SchemeLen(u) ==
    LET i == FindAny(u, {":"}, 1)
    IN  IF /\ i > 1
           /\ i <= Len(u)
           /\ u[1] \notin NotAlphaStart
           /\ \A j \in 1..(i - 1) : u[j] \notin NotSchemeAtoms
        THEN i - 1
        ELSE 0

\* urlsplit, step 1: the scheme and what follows its ":"
SplitScheme(u, n) ==
    [scheme |-> SubSeq(u, 1, n),
     rest   |-> IF n = 0 THEN u ELSE SubSeq(u, n + 2, Len(u))]

\* urlsplit, step 2 (_splitnetloc): the authority after "//", up to the first
\* of "/", "?", "#"
SplitNetloc(rest, delim) ==
    IF StartsWith(rest, <<"/", "/">>)
    THEN [netloc |-> SubSeq(rest, 3, delim - 1), after |-> SubSeq(rest, delim, Len(rest))]
    ELSE [netloc |-> <<>>, after |-> rest]

\* urlsplit, step 3: the fragment after the first "#"
SplitFragment(after, hash) ==
    [noFrag |-> SubSeq(after, 1, hash - 1), fragment |-> SubSeq(after, hash + 1, Len(after))]

\* urlsplit, step 4: the query after the first "?"
SplitQuery(noFrag, qm) ==
    [path |-> SubSeq(noFrag, 1, qm - 1), query |-> SubSeq(noFrag, qm + 1, Len(noFrag))]

UrlParts(scheme, netloc, pq, fragment) ==
    [scheme |-> scheme, netloc |-> netloc, path |-> pq.path, query |-> pq.query,
     fragment |-> fragment]

ParseTail(scheme, netloc, f) ==
    UrlParts(scheme, netloc, SplitQuery(f.noFrag, FindAny(f.noFrag, {"?"}, 1)), f.fragment)

\* the element of a singleton: a step's result, computed once for the steps
\* that follow it
The(S) == CHOOSE v \in S : TRUE

ParseAfter(scheme, nl) ==
    The({ParseTail(scheme, nl.netloc, f) :
            f \in {SplitFragment(nl.after, FindAny(nl.after, {"#"}, 1))}})

ParseRest(s) ==
    The({ParseAfter(s.scheme, nl) :
            nl \in {SplitNetloc(s.rest, FindAny(s.rest, {"/", "?", "#"}, 3))}})

\* urlparse(u): scheme, netloc, path, query and fragment of u
UrlParse(u) == The({ParseRest(s) : s \in {SplitScheme(u, SchemeLen(u))}})

\* urlunparse
UrlUnparse(p) ==
    (IF p.scheme # <<>> THEN p.scheme \o <<":">> ELSE <<>>)
    \o (IF p.netloc # <<>> THEN <<"/", "/">> \o p.netloc ELSE <<>>)
    \o (IF p.netloc # <<>> /\ p.path # <<>> /\ Head(p.path) # "/" THEN <<"/">> ELSE <<>>)
    \o p.path
    \o (IF p.query # <<>> THEN <<"?">> \o p.query ELSE <<>>)
    \o (IF p.fragment # <<>> THEN <<"#">> \o p.fragment ELSE <<>>)

\* the directory part of a base path: the path up to and with its last "/"
RECURSIVE DirOf(_)
DirOf(path) ==
    IF path = <<>> THEN <<"/">>
    ELSE IF path[Len(path)] = "/" THEN path
    ELSE DirOf(SubSeq(path, 1, Len(path) - 1))

\* urljoin on the parsed base b and the parsed reference r
JoinParts(b, r) ==
    IF r.netloc # <<>> THEN [r EXCEPT !.scheme = b.scheme]
    ELSE IF r.path = <<>>
    THEN [r EXCEPT !.scheme = b.scheme, !.netloc = b.netloc, !.path = b.path,
                   !.query = IF r.query = <<>> THEN b.query ELSE r.query]
    ELSE [r EXCEPT !.scheme = b.scheme, !.netloc = b.netloc,
                   !.path = IF Head(r.path) = "/" THEN r.path
                            ELSE DirOf(b.path) \o r.path]

JoinParsed(base, ref, b, r) ==
    IF ref = <<>> THEN base
    ELSE IF r.scheme # <<>> /\ r.scheme # b.scheme THEN ref
    ELSE UrlUnparse(JoinParts(b, r))

\* urljoin(base, ref), for references without "." and ".." segments
UrlJoin(base, ref) == JoinParsed(base, ref, UrlParse(base), UrlParse(ref))

\* urlparse(u).netloc
Netloc(u) == UrlParse(u).netloc

\* the names of parse_qs(query), in order of first occurrence; a field with a
\* blank value is dropped (keep_blank_values is off)
\* one "name=value" field of a query string
Field(field, eq) ==
    [name |-> SubSeq(field, 1, eq - 1), value |-> SubSeq(field, eq + 1, Len(field))]

AddName(f, rest) ==
    IF f.value = <<>> THEN rest
    ELSE <<f.name>> \o SelectSeq(rest, LAMBDA x : x # f.name)

FirstField(q, amp) == Field(SubSeq(q, 1, amp - 1), FindAny(SubSeq(q, 1, amp - 1), {"="}, 1))

RECURSIVE ParseQsNames(_)
RestNames(q, amp) == ParseQsNames(SubSeq(q, amp + 1, Len(q)))

QsNames(q, amp) == AddName(FirstField(q, amp), RestNames(q, amp))

ParseQsNames(q) == IF q = <<>> THEN <<>> ELSE QsNames(q, FindAny(q, {"&"}, 1))

(***************************************************************************)
(* The target and what the enumerator can print.                           *)
(***************************************************************************)
\* self.domain, the -d argument
Domain == <<"example", ".", "com">>

HostSub  == <<"a", ".", "example", ".", "com">>
HostNot  == <<"not", "example", ".", "com">>
HostEvil == <<"evil", ".", "com">>

\* a line of the enumerator, as readline() or the file iterator returns it
RawLines == {h \o <<"\n">> : h \in {HostSub, HostNot, HostEvil}} \cup {<<"\n">>}

NoFile == << <<"<no file>">> >>

\* the label-boundary test a descendant of the target passes
IsDescendant(h) == h = Domain \/ EndsWith(h, <<".">> \o Domain)

(***************************************************************************)
(* State.                                                                  *)
(***************************************************************************)
VARIABLES
    pc,               \* the stage run() is at
    at,               \* the position inside that stage; "call": not entered yet
    log,              \* the stages entered and left so far, in order
    proc,             \* the enumerator process
    returncode,       \* process.returncode
    linesRead,        \* lines read from the process's stdout
    stdoutLines,      \* the stripped lines read from stdout
    outfile,          \* the result file as the stage found it
    subdomains,       \* self.subdomains
    live_subdomains,  \* self.live_subdomains
    endpoints,        \* self.endpoints
    js_endpoints,     \* self.js_endpoints
    vulnerabilities,  \* self.vulnerabilities
    screenshots,      \* self.screenshots
    chk,              \* the _check_live task of each subdomain
    attempts,         \* the liveness requests made for each subdomain
    joined,           \* tasks the as_completed loop has awaited
    gap,              \* time the sleeps have put after the last liveness request, capped
    pool,             \* the liveness tasks counted by where they are
    js_todo,          \* live hosts the JS loop has not visited
    js_cur,           \* the live host the JS loop is at
    js_scripts,       \* resolved script URLs of its page still to handle
    js_phase,         \* where the JS loop body is
    fetched,          \* script URLs requested so far
    pr_todo,          \* live hosts the probe loop has not visited
    pr_cur,           \* the live host the probe loop is at
    pr_idx,           \* the (class, payload, parameter) combination it is at
    pr_phase,         \* where the loop body is
    resp,             \* the response of the probe in hand
    requests,         \* the probe requests issued so far
    inflight,         \* probe requests issued and not completed
    idle,             \* time since the last probe completed, capped
    snapshots,        \* snapshots the archive loop has taken
    report,           \* the persisted report
    writes,           \* how often the report file was written
    summary           \* the counts of the summary table

runVars   == <<pc, at, log>>
enumVars  == <<proc, returncode, linesRead, stdoutLines, outfile>>
liveVars  == <<chk, attempts, joined, gap>>
jsVars    == <<js_todo, js_cur, js_scripts, js_phase, fetched>>
probeVars == <<pr_todo, pr_cur, pr_idx, pr_phase, resp, requests, inflight, idle>>
outVars   == <<report, writes, summary>>
fields    == <<subdomains, live_subdomains, endpoints, js_endpoints,
               vulnerabilities, screenshots>>

stageVars == <<runVars, enumVars, liveVars, jsVars, probeVars, snapshots, outVars,
               fields>>

vars == <<stageVars, pool>>

\* the stages of run(), in the order of its await statements
Stages == <<"enumerate", "liveness", "js", "probe", "archive", "persist", "display">>

NoResp == [kind |-> "none"]

NoReport == [written |-> FALSE]

\* no task is counted
NoPool == [queued1 |-> 0, active1 |-> 0, queued2 |-> 0, active2 |-> 0,
           blocking |-> 0, done |-> 0]

NoSummary == [shown |-> FALSE]

\* Tulpar.__init__
InitRun ==
    /\ pc = "new"
    /\ at = "call"
    /\ log = <<>>
    /\ proc = "none"
    /\ returncode = None
    /\ linesRead = 0
    /\ stdoutLines = {}
    /\ outfile = NoFile
    /\ subdomains = {}
    /\ live_subdomains = {}
    /\ endpoints = {}
    /\ js_endpoints = <<>>
    /\ vulnerabilities = <<>>
    /\ screenshots = <<>>
    /\ chk = <<>>
    /\ attempts = <<>>
    /\ joined = 0
    /\ gap = 0
    /\ js_todo = {}
    /\ js_cur = NoUrl
    /\ js_scripts = <<>>
    /\ js_phase = "idle"
    /\ fetched = {}
    /\ pr_todo = {}
    /\ pr_cur = NoUrl
    /\ pr_idx = 0
    /\ pr_phase = "next"
    /\ resp = NoResp
    /\ requests = <<>>
    /\ inflight = 0
    /\ idle = 0
    /\ snapshots = 0
    /\ report = NoReport
    /\ writes = 0
    /\ summary = NoSummary

Init == InitRun /\ pool = NoPool

(***************************************************************************)
(* run(): the sequence of the stages.                                      *)
(***************************************************************************)
\* run() awaits stage: the stage function is entered
Enter(stage) ==
    /\ pc = stage
    /\ at = "call"
    /\ log' = Append(log, <<"start", stage>>)

\* the stage function returns to run(), which goes on to its next statement
Return(stage, next) ==
    /\ pc' = next
    /\ at' = "call"
    /\ log' = Append(log, <<"finish", stage>>)

\* run() is called
Run ==
    /\ pc = "new"
    /\ pc' = "enumerate"
    /\ UNCHANGED <<pool, at, log, enumVars, liveVars, jsVars, probeVars, snapshots,
                   outVars, fields>>

(***************************************************************************)
(* enumerate_subdomains                                                    *)
(***************************************************************************)
\* the scope test left out: every line is taken
InScope_Any(line) == TRUE

\* the scope test of lines 89 and 114
InScope(line) == EndsWith(line, Domain)

\* lines 85-90 and 113-115: what one line adds to self.subdomains
Accept(set, raw) ==
    LET line == Strip(raw)
    IN  IF line # <<>> /\ InScope(line) THEN set \cup {line} ELSE set

\* lines 110-117 and 121-128: the lines of the result file, in order
RECURSIVE ReadFile(_, _)
ReadFile(set, lines) ==
    IF lines = <<>> THEN set
    ELSE ReadFile(Accept(set, Head(lines)), Tail(lines))

\* lines 58-78: the process is created, or creating it raises (no binary)
EnumSpawn ==
    /\ Enter("enumerate")
    /\ \E ok \in BOOLEAN :
        IF ok
        THEN /\ proc' = "running"
             /\ at' = "read"
             /\ pc' = pc
        ELSE /\ proc' = "none"
             /\ pc' = "enumerate"
             /\ at' = "except"
    /\ UNCHANGED <<pool, returncode, linesRead, stdoutLines, outfile, liveVars, jsVars,
                   probeVars, snapshots, outVars, fields>>

\* lines 81-93: readline() returns a line
EnumReadLine ==
    /\ pc = "enumerate"
    /\ at = "read"
    /\ linesRead < MaxLines
    /\ \E raw \in RawLines :
        /\ subdomains' = Accept(subdomains, raw)
        /\ stdoutLines' = stdoutLines \cup {Strip(raw)}
    /\ linesRead' = linesRead + 1
    /\ UNCHANGED <<pool, runVars, proc, returncode, outfile, liveVars, jsVars, probeVars,
                   snapshots, outVars, live_subdomains, endpoints, js_endpoints,
                   vulnerabilities, screenshots>>

\* lines 83-84: readline() returns b"": stdout is closed
EnumEOF ==
    /\ pc = "enumerate"
    /\ at = "read"
    /\ at' = "reconcile"
    /\ proc' = "exited"
    /\ UNCHANGED <<pool, pc, log, returncode, linesRead, stdoutLines, outfile, liveVars,
                   jsVars, probeVars, snapshots, outVars, fields>>

\* a timeout that throws away what the loop had collected
EnumTimeout_Discards ==
    /\ pc = "enumerate"
    /\ at = "read"
    /\ at' = "wait"
    /\ proc' = "terminating"
    /\ subdomains' = {}
    /\ UNCHANGED <<pool, pc, log, returncode, linesRead, stdoutLines, outfile, liveVars,
                   jsVars, probeVars, snapshots, outVars, live_subdomains, endpoints,
                   js_endpoints, vulnerabilities, screenshots>>

\* lines 94-97: the timeout fires while readline() is pending; the handler
\* sends the process the termination signal
EnumTimeout ==
    /\ pc = "enumerate"
    /\ at = "read"
    /\ at' = "wait"
    /\ proc' = "terminating"
    /\ UNCHANGED <<pool, pc, log, returncode, linesRead, stdoutLines, outfile, liveVars,
                   jsVars, probeVars, snapshots, outVars, fields>>

\* line 98: process.wait() returns once the process has died of the signal; a
\* process that does not die leaves the stage here
EnumWaited ==
    /\ pc = "enumerate"
    /\ at = "wait"
    /\ at' = "reconcile"
    /\ proc' = "terminated"
    /\ UNCHANGED <<pool, pc, log, returncode, linesRead, stdoutLines, outfile, liveVars,
                   jsVars, probeVars, snapshots, outVars, fields>>

\* line 82: readline() raises (a line longer than the stream's limit)
EnumReadError ==
    /\ pc = "enumerate"
    /\ at = "read"
    /\ at' = "except"
    /\ UNCHANGED <<pool, pc, log, enumVars, liveVars, jsVars, probeVars, snapshots,
                   outVars, fields>>

\* the values of process.returncode after stdout and stderr are closed: the
\* exit code, or None while the exit has not been collected
ReturnCodes(p) ==
    IF p = "terminated" THEN {"0", "1", "-15"} ELSE {"0", "1", None}

\* the reconciliation with a failure branch that leaves the file alone
EnumReconcile_FailedSkipsFile ==
    /\ pc = "enumerate"
    /\ at = "reconcile"
    /\ \E rc \in ReturnCodes(proc),
          file \in {NoFile} \cup SeqsUpTo(RawLines, MaxFileLines) :
        \E failAt \in (IF file = NoFile THEN {-1} ELSE -1..Len(file)) :
            LET lines == IF file = NoFile THEN <<>>
                         ELSE IF failAt = -1 THEN file
                         ELSE SubSeq(file, 1, failAt)
            IN  /\ returncode' = rc
                /\ outfile' = file
                /\ subdomains' = IF rc = "0" \/ subdomains # {}
                                 THEN ReadFile(subdomains, lines)
                                 ELSE subdomains
                /\ at' = IF failAt = -1 THEN "total" ELSE "except"
    /\ UNCHANGED <<pool, pc, log, proc, linesRead, stdoutLines, liveVars, jsVars,
                   probeVars, snapshots, outVars, live_subdomains, endpoints,
                   js_endpoints, vulnerabilities, screenshots>>

\* lines 99-128: stderr is read and logged, the result file is merged.  failAt
\* is the number of lines read before open() or the iteration raises, -1 when
\* nothing raises.
EnumReconcile ==
    /\ pc = "enumerate"
    /\ at = "reconcile"
    /\ \E rc \in ReturnCodes(proc),
          file \in {NoFile} \cup SeqsUpTo(RawLines, MaxFileLines) :
        \E failAt \in (IF file = NoFile THEN {-1} ELSE -1..Len(file)) :
            LET lines == IF file = NoFile THEN <<>>
                         ELSE IF failAt = -1 THEN file
                         ELSE SubSeq(file, 1, failAt)
            IN  /\ returncode' = rc
                /\ outfile' = file
                /\ subdomains' = IF rc = "0" \/ subdomains # {}
                                 THEN ReadFile(subdomains, lines)
                                 ELSE ReadFile(subdomains, lines)
                /\ at' = IF failAt = -1 THEN "total" ELSE "except"
    /\ UNCHANGED <<pool, pc, log, proc, linesRead, stdoutLines, liveVars, jsVars,
                   probeVars, snapshots, outVars, live_subdomains, endpoints,
                   js_endpoints, vulnerabilities, screenshots>>

\* run() with the liveness stage left out
EnumEnd_SkipsLiveness ==
    /\ pc = "enumerate"
    /\ at \in {"except", "total"}
    /\ Return("enumerate", "js")
    /\ UNCHANGED <<pool, enumVars, liveVars, jsVars, probeVars, snapshots, outVars, fields>>

\* the stage without the handler of line 129: an exception leaves the stage
\* and run()
EnumEnd_Reraises ==
    /\ pc = "enumerate"
    /\ at \in {"except", "total"}
    /\ IF at = "except"
       THEN /\ pc' = "aborted"
            /\ at' = "call"
            /\ log' = Append(log, <<"raise", "enumerate">>)
       ELSE Return("enumerate", "liveness")
    /\ UNCHANGED <<pool, enumVars, liveVars, jsVars, probeVars, snapshots, outVars, fields>>

\* lines 129-133: the handler logs the exception; the total is printed and the
\* stage returns
EnumEnd ==
    /\ pc = "enumerate"
    /\ at \in {"except", "total"}
    /\ Return("enumerate", "liveness")
    /\ UNCHANGED <<pool, enumVars, liveVars, jsVars, probeVars, snapshots, outVars, fields>>

(***************************************************************************)
(* check_live_subdomains and _check_live                                   *)
(***************************************************************************)
\* TCPConnector(limit=50)
ConnLimit == 50

\* self.rate_limit, in tenths of a time unit
RateLimit == 5

Min(a, b) == IF a < b THEN a ELSE b

\* what a request can come to: a status below 400, a status of 400 or more,
\* an exception
Outcomes == {"ok", "bad", "error"}

\* f"{protocol}://{subdomain}"
LiveUrl(protocol, subdomain) == <<protocol, ":", "/", "/">> \o subdomain

\* dict assignment d[k] = v
Put(d, k, v) == [x \in DOMAIN d \cup {k} |-> IF x = k THEN v ELSE d[x]]

\* lines 196-206: _take_screenshot; ok is whether the request and the save
\* went through
TakeScreenshot(shots, url, ok) ==
    IF ok
    THEN Put(shots, url, <<"screenshot_">> \o Netloc(url) \o <<".png">>)
    ELSE shots

\* connections of the stage's session that are in use
OpenConnections == Cardinality({s \in DOMAIN chk : chk[s] \in {"http", "https"}})

Attempt(client, protocol, result) ==
    [client |-> client, protocol |-> protocol, result |-> result]

\* the last attempt of a task gets its result
Settle(log_, result) == [log_ EXCEPT ![Len(log_)].result = result]

\* lines 135-142: the session is made, one coroutine per subdomain
LiveStart ==
    /\ Enter("liveness")
    /\ pc' = pc
    /\ at' = "tasks"
    /\ chk' = [s \in subdomains |-> "new"]
    /\ attempts' = [s \in subdomains |-> <<>>]
    /\ joined' = 0
    /\ gap' = 0
    /\ proc' = "none"
    /\ returncode' = None
    /\ linesRead' = 0
    /\ stdoutLines' = {}
    /\ outfile' = NoFile
    /\ UNCHANGED <<pool, jsVars, probeVars, snapshots, outVars, fields>>

\* lines 159-163: a task starts and sends its first request
ChkSend(s) ==
    /\ pc = "liveness"
    /\ at = "tasks"
    /\ chk[s] = "new"
    /\ OpenConnections < ConnLimit
    /\ chk' = [chk EXCEPT ![s] = "http"]
    /\ attempts' = [attempts EXCEPT ![s] = Append(@, Attempt("primary", "http", "pending"))]
    /\ gap' = 0
    /\ UNCHANGED <<pool, runVars, enumVars, joined, jsVars, probeVars, snapshots, outVars,
                   fields>>

\* _check_live without the return of line 171: after a live http answer the
\* loop goes on to https
ChkPrimaryHttp_NoReturn(s) ==
    /\ pc = "liveness"
    /\ at = "tasks"
    /\ chk[s] = "http"
    /\ \E o \in Outcomes, shot \in BOOLEAN :
        /\ live_subdomains' = IF o = "ok" THEN live_subdomains \cup {LiveUrl("http", s)}
                              ELSE live_subdomains
        /\ screenshots' = IF o = "ok"
                          THEN TakeScreenshot(screenshots, LiveUrl("http", s), shot)
                          ELSE screenshots
        /\ attempts' = [attempts EXCEPT ![s] =
               Append(Settle(@, IF o = "ok" THEN "ok" ELSE "fail"),
                      Attempt("primary", "https", "pending"))]
    /\ chk' = [chk EXCEPT ![s] = "https"]
    /\ gap' = 0
    /\ UNCHANGED <<pool, runVars, enumVars, joined, jsVars, probeVars, snapshots, outVars,
                   subdomains, endpoints, js_endpoints, vulnerabilities>>

\* _take_screenshot without its handler: a failure of the hook is caught at
\* line 175 and the loop goes on to https
ChkPrimaryHttp_ShotRaises(s) ==
    /\ pc = "liveness"
    /\ at = "tasks"
    /\ chk[s] = "http"
    /\ \E o \in Outcomes, shot \in BOOLEAN :
        IF o = "ok" /\ shot
        THEN /\ live_subdomains' = live_subdomains \cup {LiveUrl("http", s)}
             /\ screenshots' = TakeScreenshot(screenshots, LiveUrl("http", s), shot)
             /\ chk' = [chk EXCEPT ![s] = "done"]
             /\ attempts' = [attempts EXCEPT ![s] = Settle(@, "ok")]
             /\ gap' = gap
        ELSE /\ live_subdomains' = IF o = "ok"
                                   THEN live_subdomains \cup {LiveUrl("http", s)}
                                   ELSE live_subdomains
             /\ chk' = [chk EXCEPT ![s] = "https"]
             /\ attempts' = [attempts EXCEPT ![s] =
                    Append(Settle(@, IF o = "ok" THEN "ok" ELSE "fail"),
                           Attempt("primary", "https", "pending"))]
             /\ gap' = 0
             /\ UNCHANGED screenshots
    /\ UNCHANGED <<pool, runVars, enumVars, joined, jsVars, probeVars, snapshots, outVars,
                   subdomains, endpoints, js_endpoints, vulnerabilities>>

\* lines 164-177, first round of the loop: the http request on the session
\* completes
ChkPrimaryHttp(s) ==
    /\ pc = "liveness"
    /\ at = "tasks"
    /\ chk[s] = "http"
    /\ \E o \in Outcomes, shot \in BOOLEAN :
        IF o = "ok"
        THEN /\ live_subdomains' = live_subdomains \cup {LiveUrl("http", s)}
             /\ screenshots' = TakeScreenshot(screenshots, LiveUrl("http", s), shot)
             /\ chk' = [chk EXCEPT ![s] = "done"]
             /\ attempts' = [attempts EXCEPT ![s] = Settle(@, "ok")]
             /\ gap' = gap
        ELSE /\ chk' = [chk EXCEPT ![s] = "https"]
             /\ attempts' = [attempts EXCEPT ![s] =
                    Append(Settle(@, "fail"), Attempt("primary", "https", "pending"))]
             /\ gap' = 0
             /\ UNCHANGED <<live_subdomains, screenshots>>
    /\ UNCHANGED <<pool, runVars, enumVars, joined, jsVars, probeVars, snapshots, outVars,
                   subdomains, endpoints, js_endpoints, vulnerabilities>>

\* lines 179-194: the two requests of the fallback client, one after the
\* other without a suspension; o1 and o2 are what they come to
Fallback(s, o1, o2, shot) ==
    LET first  == Attempt("fallback", "http", IF o1 = "ok" THEN "ok" ELSE "fail")
        second == Attempt("fallback", "https", IF o2 = "ok" THEN "ok" ELSE "fail")
        url    == LiveUrl(IF o1 = "ok" THEN "http" ELSE "https", s)
        alive  == o1 = "ok" \/ o2 = "ok"
    IN  /\ attempts' = [attempts EXCEPT ![s] =
               IF o1 = "ok" THEN Append(Settle(@, "fail"), first)
               ELSE Settle(@, "fail") \o <<first, second>>]
        /\ live_subdomains' = IF alive THEN live_subdomains \cup {url}
                              ELSE live_subdomains
        /\ screenshots' = IF alive THEN TakeScreenshot(screenshots, url, shot)
                          ELSE screenshots
        /\ gap' = 0

\* _check_live without the loop of lines 178-194: a task whose two requests on
\* the session failed is over
ChkPrimaryHttps_NoFallback(s) ==
    /\ pc = "liveness"
    /\ at = "tasks"
    /\ chk[s] = "https"
    /\ \E o \in Outcomes, shot \in BOOLEAN :
        IF o = "ok"
        THEN /\ live_subdomains' = live_subdomains \cup {LiveUrl("https", s)}
             /\ screenshots' = TakeScreenshot(screenshots, LiveUrl("https", s), shot)
             /\ attempts' = [attempts EXCEPT ![s] = Settle(@, "ok")]
        ELSE /\ attempts' = [attempts EXCEPT ![s] = Settle(@, "fail")]
             /\ UNCHANGED <<live_subdomains, screenshots>>
    /\ chk' = [chk EXCEPT ![s] = "done"]
    /\ gap' = gap
    /\ UNCHANGED <<pool, runVars, enumVars, joined, jsVars, probeVars, snapshots, outVars,
                   subdomains, endpoints, js_endpoints, vulnerabilities>>

\* lines 164-194, second round of the loop: the https request on the session
\* completes; when it fails too the fallback client is tried
ChkPrimaryHttps(s) ==
    /\ pc = "liveness"
    /\ at = "tasks"
    /\ chk[s] = "https"
    /\ \E o \in Outcomes, shot \in BOOLEAN :
        IF o = "ok"
        THEN /\ live_subdomains' = live_subdomains \cup {LiveUrl("https", s)}
             /\ screenshots' = TakeScreenshot(screenshots, LiveUrl("https", s), shot)
             /\ attempts' = [attempts EXCEPT ![s] = Settle(@, "ok")]
             /\ gap' = gap
        ELSE \E o1 \in Outcomes, o2 \in Outcomes : Fallback(s, o1, o2, shot)
    /\ chk' = [chk EXCEPT ![s] = "done"]
    /\ UNCHANGED <<pool, runVars, enumVars, joined, jsVars, probeVars, snapshots, outVars,
                   subdomains, endpoints, js_endpoints, vulnerabilities>>

\* lines 151-154: the loop takes the next finished task and sleeps
LiveJoin ==
    /\ pc = "liveness"
    /\ at = "tasks"
    /\ joined < Cardinality({s \in DOMAIN chk : chk[s] = "done"})
    /\ joined' = joined + 1
    /\ gap' = Min(RateLimit, gap + RateLimit)
    /\ UNCHANGED <<pool, runVars, enumVars, chk, attempts, jsVars, probeVars, snapshots,
                   outVars, fields>>

\* lines 155-156: every task was awaited; the stage returns
LiveEnd ==
    /\ pc = "liveness"
    /\ at = "tasks"
    /\ joined = Cardinality(DOMAIN chk)
    /\ Return("liveness", "js")
    /\ UNCHANGED <<pool, enumVars, liveVars, jsVars, probeVars, snapshots, outVars, fields>>

(***************************************************************************)
(* collect_js_endpoints                                                    *)
(***************************************************************************)
\* the src values a page can carry
ScriptSrcs ==
    { <<"/", "app.js">>,
      <<"http", ":", "/", "/", "evil", ".", "com", "/", "x.js">> }

\* the quoted substrings a script body can carry
Literals ==
    { <<"https", ":", "/", "/", "a", ".", "example", ".", "com", "/", "api", "?", "x", "=", "1">>,
      <<"http", ":", "/", "/", "evil", ".", "com", "/", "p">>,
      <<"/", "v1", "/", "users">>,
      <<"/", "/", "evil", ".", "com", "/", "x">>,
      <<"api", "/", "v1">>,
      <<"graphql", "/", "x">>,
      <<"p", "?", "x", "=", "1">>,
      <<"a", ".", "example", ".", "com", "/", "v1", "/", "users">>,
      <<"word">> }

\* atoms of one or more characters of [a-zA-Z0-9_-]
WordAtoms ==
    {"a", "x", "p", "v1", "users", "api", "graphql", "word", "example", "com", "evil", "1"}

\* lines 227-232: the pattern's alternatives, tried in order; the captured
\* group of a literal, <<>> when no alternative matches it
Captured(lit) ==
    LET n == Len(lit)
    IN  IF \/ /\ n > 4
              /\ lit[1] \in {"http", "https"}
              /\ SubSeq(lit, 2, 4) = <<":", "/", "/">>
           \/ n > 1 /\ lit[1] = "/"
           \/ n > 2 /\ SubSeq(lit, 1, 2) = <<"api", "/">>
           \/ n > 2 /\ SubSeq(lit, 1, 2) = <<"graphql", "/">>
           \/ n > 4 /\ SubSeq(lit, 1, 4) = <<"ws", ":", "/", "/">>
           \/ \E i \in 2..(n - 1) : lit[i] = "?"
           \/ /\ n > 4
              /\ lit[n - 3] = "/" /\ lit[n - 2] \in WordAtoms
              /\ lit[n - 1] = "/" /\ lit[n] \in WordAtoms
        THEN lit
        ELSE <<>>

\* lines 240-248: the record of an accepted endpoint
JsEndpoint(endpoint, names) ==
    [url |-> endpoint, parameters |-> Len(names), param_names |-> names]

\* lines 239-248: the scope test on the endpoint's authority
Record(list, endpoint, parsed) ==
    IF EndsWith(parsed.netloc, Domain)
    THEN Append(list, JsEndpoint(endpoint, ParseQsNames(parsed.query)))
    ELSE list

RecordIfInScope(list, endpoint) == Record(list, endpoint, UrlParse(endpoint))

\* the loop body with every group that has no scheme resolved against the
\* page URL, not only the ones that start with "/"
ExtractGroup_JoinsRelative(list, page, group) ==
    IF group = <<>> THEN list
    ELSE IF Head(group) = "/" \/ SchemeLen(group) = 0
    THEN RecordIfInScope(list, UrlJoin(page, group))
    ELSE RecordIfInScope(list, group)

\* lines 234-238: the first non-empty group; one that starts with "/" is
\* resolved against the page URL
ExtractGroup(list, page, group) ==
    IF group = <<>> THEN list
    ELSE IF Head(group) = "/" THEN RecordIfInScope(list, UrlJoin(page, group))
    ELSE RecordIfInScope(list, group)

\* lines 233-248: what one match adds to self.js_endpoints
Extract(list, page, lit) == ExtractGroup(list, page, Captured(lit))

RECURSIVE ExtractAll(_, _, _)
ExtractAll(list, page, lits) ==
    IF lits = <<>> THEN list
    ELSE ExtractAll(Extract(list, page, Head(lits)), page, Tail(lits))

\* line 220: the script URLs of a page, resolved against the page URL
Resolve(page, srcs) == [i \in 1..Len(srcs) |-> UrlJoin(page, srcs[i])]

\* lines 208-211: the session is made
JsStart ==
    /\ Enter("js")
    /\ pc' = pc
    /\ at' = "loop"
    /\ js_todo' = live_subdomains
    /\ js_cur' = NoUrl
    /\ js_scripts' = <<>>
    /\ js_phase' = "idle"
    /\ fetched' = {}
    /\ chk' = <<>>
    /\ attempts' = <<>>
    /\ joined' = 0
    /\ gap' = 0
    /\ UNCHANGED <<pool, enumVars, probeVars, snapshots, outVars, fields>>

\* lines 212-214: the loop takes the next live host and requests its page
JsPageSend ==
    /\ pc = "js"
    /\ at = "loop"
    /\ js_phase = "idle"
    /\ \E url \in js_todo :
        /\ js_cur' = url
        /\ js_todo' = js_todo \ {url}
    /\ js_phase' = "page"
    /\ UNCHANGED <<pool, runVars, enumVars, liveVars, js_scripts, fetched, probeVars,
                   snapshots, outVars, fields>>

\* lines 214-220 and 254-257: the page arrives.  A status of 400 or more goes
\* on to the next host at once, an exception after the pacing sleep.
JsPageRecv ==
    /\ pc = "js"
    /\ at = "loop"
    /\ js_phase = "page"
    /\ \E o \in Outcomes, srcs \in SeqsUpTo(ScriptSrcs, MaxScripts) :
        IF o = "ok"
        THEN /\ js_scripts' = Resolve(js_cur, srcs)
             /\ js_phase' = "scripts"
             /\ js_cur' = js_cur
        ELSE /\ js_scripts' = <<>>
             /\ js_phase' = IF o = "bad" THEN "idle" ELSE "sleep"
             /\ js_cur' = IF o = "bad" THEN NoUrl ELSE js_cur
    /\ UNCHANGED <<pool, runVars, enumVars, liveVars, js_todo, fetched, probeVars,
                   snapshots, outVars, fields>>

\* the loop of lines 219-223 with the test of line 221 left out
JsScriptNext_NoScopeTest ==
    /\ pc = "js"
    /\ at = "loop"
    /\ js_phase = "scripts"
    /\ js_scripts # <<>>
    /\ fetched' = fetched \cup {Head(js_scripts)}
    /\ js_phase' = "script"
    /\ js_scripts' = js_scripts
    /\ UNCHANGED <<pool, runVars, enumVars, liveVars, js_todo, js_cur, probeVars,
                   snapshots, outVars, fields>>

\* lines 219-223: the next script of the page: requested when its authority
\* passes the scope test, passed over otherwise
JsScriptNext ==
    /\ pc = "js"
    /\ at = "loop"
    /\ js_phase = "scripts"
    /\ js_scripts # <<>>
    /\ IF EndsWith(Netloc(Head(js_scripts)), Domain)
       THEN /\ fetched' = fetched \cup {Head(js_scripts)}
            /\ js_phase' = "script"
            /\ js_scripts' = js_scripts
       ELSE /\ js_scripts' = Tail(js_scripts)
            /\ UNCHANGED <<fetched, js_phase>>
    /\ UNCHANGED <<pool, runVars, enumVars, liveVars, js_todo, js_cur, probeVars,
                   snapshots, outVars, fields>>

\* lines 223-253: the script arrives and is mined
JsScriptRecv ==
    /\ pc = "js"
    /\ at = "loop"
    /\ js_phase = "script"
    /\ \E o \in Outcomes, lits \in SeqsUpTo(Literals, MaxLiterals) :
        js_endpoints' = IF o = "ok" THEN ExtractAll(js_endpoints, js_cur, lits)
                        ELSE js_endpoints
    /\ js_scripts' = Tail(js_scripts)
    /\ js_phase' = "scripts"
    /\ UNCHANGED <<pool, runVars, enumVars, liveVars, js_todo, js_cur, fetched, probeVars,
                   snapshots, outVars, subdomains, live_subdomains, endpoints,
                   vulnerabilities, screenshots>>

\* line 257: the pacing sleep that ends a round of the loop
JsSleep ==
    /\ pc = "js"
    /\ at = "loop"
    /\ \/ js_phase = "scripts" /\ js_scripts = <<>>
       \/ js_phase = "sleep"
    /\ js_phase' = "idle"
    /\ js_cur' = NoUrl
    /\ UNCHANGED <<pool, runVars, enumVars, liveVars, js_todo, js_scripts, fetched,
                   probeVars, snapshots, outVars, fields>>

\* line 258: the loop is over; the stage returns
JsEnd ==
    /\ pc = "js"
    /\ at = "loop"
    /\ js_phase = "idle"
    /\ js_todo = {}
    /\ Return("js", "probe")
    /\ UNCHANGED <<pool, enumVars, liveVars, jsVars, probeVars, snapshots, outVars, fields>>

(***************************************************************************)
(* test_vulnerabilities                                                    *)
(***************************************************************************)
\* lines 263-279: the payloads dict, in insertion order
Classes == <<"openredirect", "pathtraversal", "xss", "ssti">>

AllPayloads ==
    [openredirect |->
        << <<"https", ":", "/", "/", "evil", ".", "com">>,
           <<"/", "/", "evil", ".", "com">>,
           <<"http", ":", "/", "/", "evil", ".", "com">>,
           <<"?", "redirect", "=", "https", ":", "/", "/", "evil", ".", "com">>,
           <<"?", "url", "=", "/", "/", "evil", ".", "com">> >>,
     pathtraversal |->
        << <<"..", "/", "..", "/", "..", "/", "..", "/", "etc", "/", "passwd">>,
           <<"..%2f..%2f..%2fetc%2fpasswd">>,
           <<"..", "/", "..", "/", "windows", "/", "win.ini">>,
           <<"%2e%2e%2f%2e%2e%2fwindows%2fwin.ini">> >>,
     xss |->
        << <<"<script>", "alert(1)", "</script>">>,
           <<"\">", "<img", " ", "src", "=", "x", " ", "onerror", "=", "alert(1)", ">">>,
           <<"javascript", ":", "alert(1)">>,
           <<"'-", "alert(1)", "-'">> >>,
     ssti |->
        << <<"{{", "7*7", "}}">>,
           <<"${", "7*7", "}">>,
           <<"<%=", " ", "7*7", " ", "%>">>,
           <<"{{", " ", "'7'", " ", "*", " ", "7", " ", "}}">> >>]

\* line 280
AllParams ==
    <<"q", "search", "id", "page", "redirect", "url", "path", "file", "template">>

\* the payloads of a class and the parameter names the model uses
Payloads(class) == SubSeq(AllPayloads[class], 1, Min(MaxPayloads, Len(AllPayloads[class])))

Params == SubSeq(AllParams, 1, Min(MaxParams, Len(AllParams)))

\* lines 287-288: the rounds of the two inner loops for one class, in order
ClassCombos(class) ==
    [k \in 1..(Len(Payloads(class)) * Len(Params)) |->
        [class   |-> class,
         payload |-> Payloads(class)[((k - 1) \div Len(Params)) + 1],
         param   |-> Params[((k - 1) % Len(Params)) + 1]]]

\* lines 286-288: the rounds of the three inner loops for one host, in order
Combos ==
    ClassCombos(Classes[1]) \o ClassCombos(Classes[2])
        \o ClassCombos(Classes[3]) \o ClassCombos(Classes[4])

\* lines 284-285
BaseOf(parsed) == parsed.scheme \o <<":", "/", "/">> \o parsed.netloc

BaseUrl(url) == BaseOf(UrlParse(url))

\* line 289
TestUrl(url, combo) == BaseUrl(url) \o <<"?", combo.param, "=">> \o combo.payload

\* a response to a probe: status, Location header (<<>>: none), whether
\* resp.text() returns, and the text it returns
Response(status, location, text, readable) ==
    [kind |-> "response", status |-> status, location |-> location, text |-> text,
     readable |-> readable]

LocEvil    == <<"http", ":", "/", "/", "evil", ".", "com", "/", "x">>
LocWwwEvil == <<"https", ":", "/", "/", "www", ".", "evil", ".", "com">>
LocRelEvil == <<"/", "/", "evil", ".", "com">>
LocHome    == <<"http", ":", "/", "/", "example", ".", "com", "/">>

BodyPlain  == <<"ok">>
BodyPasswd == <<"root:", "x:0:0:">>
BodyIni    == <<"; for 16-bit app support", "\n", "[extensions]">>
BodyXss    == <<"<SCRIPT>", "ALERT(1)", "</SCRIPT>">>
BodyError  == <<"<img", " ", "onerror", "=", "x", ">">>
BodyFortyNine == <<"49">>
BodySevens == <<"7777777">>

Responses ==
    { Response(200, <<>>, BodyPlain, TRUE),
      Response(302, LocEvil, BodyPlain, TRUE),
      Response(301, LocWwwEvil, <<>>, TRUE),
      Response(302, LocEvil, <<>>, FALSE),
      Response(200, LocEvil, BodyPlain, TRUE),
      Response(302, LocHome, BodyPlain, TRUE),
      Response(302, LocRelEvil, BodyPlain, TRUE),
      Response(302, <<>>, BodyPasswd, TRUE),
      Response(200, <<>>, BodyPasswd, TRUE),
      Response(404, <<>>, BodyIni, TRUE),
      Response(200, <<>>, BodyXss, TRUE),
      Response(200, <<>>, BodyError, TRUE),
      Response(200, <<>>, BodyFortyNine, TRUE),
      Response(200, <<>>, BodySevens, TRUE) }

\* session.get raised: no connection, timeout
NoAnswer == [kind |-> "error"]

\* re.search(r'https?://(www\.)?evil\.com', location)
LocationMatches(location) ==
    \E i \in 1..Len(location) :
        /\ location[i] \in {"http", "https"}
        /\ \/ HasAt(location, i + 1, <<":", "/", "/", "evil", ".", "com">>)
           \/ HasAt(location, i + 1, <<":", "/", "/", "www", ".", "evil", ".", "com">>)

\* str.lower, atom by atom
LowerAtom(a) ==
    CASE a = "<SCRIPT>"  -> "<script>"
      [] a = "ALERT(1)"  -> "alert(1)"
      [] a = "</SCRIPT>" -> "</script>"
      [] OTHER           -> a

Lower(s) == [i \in 1..Len(s) |-> LowerAtom(s[i])]

\* any(x) for a bool x: a bool is not iterable, any() raises TypeError
AnyOfBool(x) == [raised |-> TRUE, value |-> FALSE]

Finding(type, url, payload, severity) ==
    [type |-> type, url |-> url, payload |-> payload, severity |-> severity]

\* line 320: the ssti test
SstiTest(text) ==
    AnyOfBool(Contains(text, <<"49">>) \/ Contains(text, <<"7777777">>))

\* lines 320-328: the ssti branch; the exception any() raises is caught at
\* line 329
SstiBranch(list, url, payload, test) ==
    IF test.raised THEN list
    ELSE IF test.value THEN Append(list, Finding("ssti", url, payload, "critical"))
    ELSE list

\* the chain without the status test of the openredirect rule
Matchers_AnyStatus(list, class, url, payload, r) ==
    IF class = "openredirect" /\ LocationMatches(r.location)
    THEN Append(list, Finding("openredirect", url, payload, "medium"))
    ELSE IF class = "pathtraversal"
            /\ (Contains(r.text, <<"root:">>) \/ Contains(r.text, <<"[extensions]">>))
    THEN Append(list, Finding("pathtraversal", url, payload, "high"))
    ELSE IF class = "xss"
            /\ \E p \in {<<"alert(1)">>, <<"onerror">>} : Contains(Lower(r.text), p)
    THEN Append(list, Finding("xss", url, payload, "high"))
    ELSE IF class = "ssti"
    THEN SstiBranch(list, url, payload, SstiTest(r.text))
    ELSE list

\* the chain without the "[extensions]" marker of the pathtraversal rule
Matchers_RootOnly(list, class, url, payload, r) ==
    IF class = "openredirect" /\ r.status \in {301, 302} /\ LocationMatches(r.location)
    THEN Append(list, Finding("openredirect", url, payload, "medium"))
    ELSE IF class = "pathtraversal" /\ Contains(r.text, <<"root:">>)
    THEN Append(list, Finding("pathtraversal", url, payload, "high"))
    ELSE IF class = "xss"
            /\ \E p \in {<<"alert(1)">>, <<"onerror">>} : Contains(Lower(r.text), p)
    THEN Append(list, Finding("xss", url, payload, "high"))
    ELSE IF class = "ssti"
    THEN SstiBranch(list, url, payload, SstiTest(r.text))
    ELSE list

\* the chain without the class test of the pathtraversal rule
Matchers_NoClassTest(list, class, url, payload, r) ==
    IF class = "openredirect" /\ r.status \in {301, 302} /\ LocationMatches(r.location)
    THEN Append(list, Finding("openredirect", url, payload, "medium"))
    ELSE IF Contains(r.text, <<"root:">>) \/ Contains(r.text, <<"[extensions]">>)
    THEN Append(list, Finding("pathtraversal", url, payload, "high"))
    ELSE IF class = "xss"
            /\ \E p \in {<<"alert(1)">>, <<"onerror">>} : Contains(Lower(r.text), p)
    THEN Append(list, Finding("xss", url, payload, "high"))
    ELSE IF class = "ssti"
    THEN SstiBranch(list, url, payload, SstiTest(r.text))
    ELSE list

\* lines 293-328: the chain of tests on a response whose body was read
Matchers(list, class, url, payload, r) ==
    IF class = "openredirect" /\ r.status \in {301, 302} /\ LocationMatches(r.location)
    THEN Append(list, Finding("openredirect", url, payload, "medium"))
    ELSE IF class = "pathtraversal"
            /\ (Contains(r.text, <<"root:">>) \/ Contains(r.text, <<"[extensions]">>))
    THEN Append(list, Finding("pathtraversal", url, payload, "high"))
    ELSE IF class = "xss"
            /\ \E p \in {<<"alert(1)">>, <<"onerror">>} : Contains(Lower(r.text), p)
    THEN Append(list, Finding("xss", url, payload, "high"))
    ELSE IF class = "ssti"
    THEN SstiBranch(list, url, payload, SstiTest(r.text))
    ELSE list

\* lines 290-331: the body of one round once the request has come to r; an
\* exception of session.get or resp.text() is caught at line 329
Evaluate(list, combo, url, r) ==
    IF r.kind = "error" THEN list
    ELSE IF ~r.readable THEN list
    ELSE Matchers(list, combo.class, url, combo.payload, r)

\* the round the loop is at
Current == Combos[pr_idx]

\* lines 260-282: the session is made
ProbeStart ==
    /\ Enter("probe")
    /\ pc' = pc
    /\ at' = "loop"
    /\ pr_todo' = live_subdomains
    /\ pr_cur' = NoUrl
    /\ pr_idx' = 0
    /\ pr_phase' = "next"
    /\ resp' = NoResp
    /\ requests' = <<>>
    /\ inflight' = 0
    /\ idle' = 0
    /\ js_todo' = {}
    /\ js_cur' = NoUrl
    /\ js_scripts' = <<>>
    /\ js_phase' = "idle"
    /\ fetched' = {}
    /\ UNCHANGED <<pool, enumVars, liveVars, snapshots, outVars, fields>>

\* one request of the log
Request(url, combo) ==
    [host |-> url, class |-> combo.class, payload |-> combo.payload,
     param |-> combo.param, url |-> TestUrl(url, combo)]

\* lines 283-291: the loops go to their next round and the request is sent
ProbeSend ==
    /\ pc = "probe"
    /\ at = "loop"
    /\ pr_phase = "next"
    /\ IF pr_cur = NoUrl
       THEN \E url \in pr_todo :
               /\ pr_cur' = url
               /\ pr_todo' = pr_todo \ {url}
               /\ pr_idx' = 1
               /\ requests' = Append(requests, Request(url, Combos[1]))
       ELSE /\ requests' = Append(requests, Request(pr_cur, Current))
            /\ UNCHANGED <<pr_cur, pr_todo, pr_idx>>
    /\ pr_phase' = "wait"
    /\ inflight' = inflight + 1
    /\ UNCHANGED <<pool, runVars, enumVars, liveVars, jsVars, resp, idle, snapshots,
                   outVars, fields>>

\* lines 291-292: the request comes to a response or to an exception
ProbeRecv ==
    /\ pc = "probe"
    /\ at = "loop"
    /\ pr_phase = "wait"
    /\ \E r \in Responses \cup {NoAnswer} :
        /\ \/ Len(vulnerabilities) < MaxMatches
           \/ Evaluate(<<>>, Current, <<>>, r) = <<>>
        /\ resp' = r
    /\ pr_phase' = "eval"
    /\ UNCHANGED <<pool, runVars, enumVars, liveVars, jsVars, pr_todo, pr_cur, pr_idx,
                   requests, inflight, idle, snapshots, outVars, fields>>

\* the round without the handler of line 329: an exception of the request
\* leaves the stage
ProbeEval_Propagates ==
    /\ pc = "probe"
    /\ at = "loop"
    /\ pr_phase = "eval"
    /\ IF resp.kind = "error"
       THEN /\ pc' = "aborted"
            /\ log' = Append(log, <<"raise", "probe">>)
            /\ UNCHANGED <<at, vulnerabilities, pr_phase>>
       ELSE /\ vulnerabilities' =
                   Evaluate(vulnerabilities, Current, TestUrl(pr_cur, Current), resp)
            /\ pr_phase' = "sleep"
            /\ UNCHANGED runVars
    /\ resp' = NoResp
    /\ inflight' = inflight - 1
    /\ idle' = 0
    /\ UNCHANGED <<pool, enumVars, liveVars, jsVars, pr_todo, pr_cur, pr_idx,
                   requests, snapshots, outVars, subdomains, live_subdomains,
                   endpoints, js_endpoints, screenshots>>

\* the round with the sleep of line 332 inside the try block: an exception of
\* the request goes to the next round without the pause
ProbeEval_NoSleepOnError ==
    /\ pc = "probe"
    /\ at = "loop"
    /\ pr_phase = "eval"
    /\ vulnerabilities' =
           Evaluate(vulnerabilities, Current, TestUrl(pr_cur, Current), resp)
    /\ resp' = NoResp
    /\ inflight' = inflight - 1
    /\ idle' = 0
    /\ IF resp.kind = "error"
       THEN /\ pr_phase' = "next"
            /\ IF pr_idx < Len(Combos)
               THEN pr_idx' = pr_idx + 1 /\ pr_cur' = pr_cur
               ELSE pr_idx' = 0 /\ pr_cur' = NoUrl
       ELSE /\ pr_phase' = "sleep"
            /\ UNCHANGED <<pr_idx, pr_cur>>
    /\ UNCHANGED <<pool, runVars, enumVars, liveVars, jsVars, pr_todo,
                   requests, snapshots, outVars, subdomains, live_subdomains,
                   endpoints, js_endpoints, screenshots>>

\* lines 293-331: the response is tested, the request is over
ProbeEval ==
    /\ pc = "probe"
    /\ at = "loop"
    /\ pr_phase = "eval"
    /\ vulnerabilities' =
           Evaluate(vulnerabilities, Current, TestUrl(pr_cur, Current), resp)
    /\ resp' = NoResp
    /\ inflight' = inflight - 1
    /\ idle' = 0
    /\ pr_phase' = "sleep"
    /\ UNCHANGED <<pool, runVars, enumVars, liveVars, jsVars, pr_todo, pr_cur, pr_idx,
                   requests, snapshots, outVars, subdomains, live_subdomains,
                   endpoints, js_endpoints, screenshots>>

\* the loops with a break after a match: the rest of the host's rounds is
\* left out once a round has recorded a finding
ProbeSleep_StopsOnMatch ==
    /\ pc = "probe"
    /\ at = "loop"
    /\ pr_phase = "sleep"
    /\ idle' = Min(RateLimit, idle + RateLimit)
    /\ pr_phase' = "next"
    /\ IF /\ pr_idx < Len(Combos)
          /\ ~ (/\ vulnerabilities # <<>>
                /\ vulnerabilities[Len(vulnerabilities)].url = TestUrl(pr_cur, Current))
       THEN pr_idx' = pr_idx + 1 /\ pr_cur' = pr_cur
       ELSE pr_idx' = 0 /\ pr_cur' = NoUrl
    /\ UNCHANGED <<pool, runVars, enumVars, liveVars, jsVars, pr_todo, resp, requests,
                   inflight, snapshots, outVars, fields>>

\* line 332: the pacing sleep that ends the round
ProbeSleep ==
    /\ pc = "probe"
    /\ at = "loop"
    /\ pr_phase = "sleep"
    /\ idle' = Min(RateLimit, idle + RateLimit)
    /\ pr_phase' = "next"
    /\ IF pr_idx < Len(Combos)
       THEN pr_idx' = pr_idx + 1 /\ pr_cur' = pr_cur
       ELSE pr_idx' = 0 /\ pr_cur' = NoUrl
    /\ UNCHANGED <<pool, runVars, enumVars, liveVars, jsVars, pr_todo, resp, requests,
                   inflight, snapshots, outVars, fields>>

\* run() without the call of line 50: the report follows the probe stage
ProbeEnd_SkipsArchive ==
    /\ pc = "probe"
    /\ at = "loop"
    /\ pr_phase = "next"
    /\ pr_cur = NoUrl
    /\ pr_todo = {}
    /\ Return("probe", "persist")
    /\ UNCHANGED <<pool, enumVars, liveVars, jsVars, probeVars, snapshots, outVars, fields>>

\* line 333: the loops are over; the stage returns
ProbeEnd ==
    /\ pc = "probe"
    /\ at = "loop"
    /\ pr_phase = "next"
    /\ pr_cur = NoUrl
    /\ pr_todo = {}
    /\ Return("probe", "archive")
    /\ UNCHANGED <<pool, enumVars, liveVars, jsVars, probeVars, snapshots, outVars, fields>>

(***************************************************************************)
(* collect_wayback_endpoints                                               *)
(***************************************************************************)
\* the URLs the snapshots of the archive can carry
SnapshotUrls ==
    { <<"http", ":", "/", "/", "a", ".", "example", ".", "com", "/", "old", "?", "id", "=", "1">>,
      <<"http", ":", "/", "/", "evil", ".", "com", "/", "x">> }

\* a snapshot record whose url cannot be read
Malformed == <<"<malformed>">>

\* lines 349-351: what one snapshot adds to self.endpoints
Collect(set, url) ==
    IF url = Malformed THEN set
    ELSE IF EndsWith(Netloc(url), Domain) THEN set \cup {url}
    ELSE set

\* lines 335-346: the API object is made, or making it raises
ArchInit ==
    /\ Enter("archive")
    /\ pc' = pc
    /\ \E ok \in BOOLEAN : at' = IF ok THEN "iter" ELSE "except"
    /\ snapshots' = 0
    /\ pr_todo' = {}
    /\ pr_cur' = NoUrl
    /\ pr_idx' = 0
    /\ pr_phase' = "next"
    /\ resp' = NoResp
    /\ requests' = <<>>
    /\ inflight' = 0
    /\ idle' = 0
    /\ UNCHANGED <<pool, enumVars, liveVars, jsVars, outVars, fields>>

\* lines 347-358: the iterator yields a snapshot
ArchSnapshot ==
    /\ pc = "archive"
    /\ at = "iter"
    /\ snapshots < MaxSnapshots
    /\ \E url \in SnapshotUrls \cup {Malformed} : endpoints' = Collect(endpoints, url)
    /\ snapshots' = snapshots + 1
    /\ UNCHANGED <<pool, runVars, enumVars, liveVars, jsVars, probeVars, outVars,
                   subdomains, live_subdomains, js_endpoints, vulnerabilities,
                   screenshots>>

\* an iteration failure that empties the endpoint set
ArchIterFail_Clears ==
    /\ pc = "archive"
    /\ at = "iter"
    /\ at' = "except"
    /\ endpoints' = {}
    /\ UNCHANGED <<pool, pc, log, enumVars, liveVars, jsVars, probeVars, snapshots,
                   outVars, subdomains, live_subdomains, js_endpoints,
                   vulnerabilities, screenshots>>

\* line 347: the iterator raises (the API cannot be reached)
ArchIterFail ==
    /\ pc = "archive"
    /\ at = "iter"
    /\ at' = "except"
    /\ UNCHANGED <<pool, pc, log, enumVars, liveVars, jsVars, probeVars, snapshots,
                   outVars, fields>>

\* lines 359-362: the iterator is exhausted, or the handler has logged the
\* exception; the stage returns
ArchEnd ==
    /\ pc = "archive"
    /\ at \in {"iter", "except"}
    /\ Return("archive", "persist")
    /\ UNCHANGED <<pool, enumVars, liveVars, jsVars, probeVars, snapshots, outVars, fields>>

(***************************************************************************)
(* save_results and display_results                                        *)
(***************************************************************************)
\* list(set): the elements of the set, each once, in some order
ListsOf(S) ==
    {l \in [1..Cardinality(S) -> S] : \A i, j \in 1..Cardinality(S) : l[i] = l[j] => i = j}

\* lines 364-379: the report is built and written; open() raises when the
\* file cannot be written
SaveResults ==
    /\ pc = "persist"
    /\ at = "call"
    /\ \E writable \in BOOLEAN :
        IF writable
        THEN /\ \E subs \in ListsOf(subdomains), live \in ListsOf(live_subdomains),
                   ends \in ListsOf(endpoints) :
                    report' = [written |-> TRUE,
                               domain |-> Domain,
                               subdomains |-> subs,
                               live_subdomains |-> live,
                               wayback_endpoints |-> ends,
                               js_endpoints |-> js_endpoints,
                               vulnerabilities |-> vulnerabilities,
                               screenshots |-> screenshots]
             /\ writes' = writes + 1
             /\ pc' = "display"
             /\ log' = log \o << <<"start", "persist">>, <<"finish", "persist">> >>
        ELSE /\ pc' = "aborted"
             /\ log' = log \o << <<"start", "persist">>, <<"raise", "persist">> >>
             /\ UNCHANGED <<report, writes>>
    /\ snapshots' = 0
    /\ UNCHANGED <<pool, at, enumVars, liveVars, jsVars, probeVars, summary, fields>>

\* a summary whose endpoint row counts the rows of the table of all endpoints
DisplayResults_CountsAllEndpoints ==
    /\ pc = "display"
    /\ at = "call"
    /\ summary' = [shown |-> TRUE,
                   subdomains |-> Cardinality(subdomains),
                   live_subdomains |-> Cardinality(live_subdomains),
                   wayback_endpoints |-> Cardinality(endpoints) + Len(js_endpoints),
                   js_endpoints |-> Len(js_endpoints),
                   vulnerabilities |-> Len(vulnerabilities),
                   screenshots |-> Cardinality(DOMAIN screenshots)]
    /\ pc' = "done"
    /\ log' = log \o << <<"start", "display">>, <<"finish", "display">> >>
    /\ UNCHANGED <<pool, at, enumVars, liveVars, jsVars, probeVars, snapshots, report,
                   writes, fields>>

\* lines 381-427 and 53-54: the tables are printed; run() returns
DisplayResults ==
    /\ pc = "display"
    /\ at = "call"
    /\ summary' = [shown |-> TRUE,
                   subdomains |-> Cardinality(subdomains),
                   live_subdomains |-> Cardinality(live_subdomains),
                   wayback_endpoints |-> Cardinality(endpoints),
                   js_endpoints |-> Len(js_endpoints),
                   vulnerabilities |-> Len(vulnerabilities),
                   screenshots |-> Cardinality(DOMAIN screenshots)]
    /\ pc' = "done"
    /\ log' = log \o << <<"start", "display">>, <<"finish", "display">> >>
    /\ UNCHANGED <<pool, at, enumVars, liveVars, jsVars, probeVars, snapshots, report,
                   writes, fields>>

Next ==
    \/ Run
    \/ EnumSpawn
    \/ EnumReadLine
    \/ EnumEOF
    \/ EnumTimeout
    \/ EnumWaited
    \/ EnumReadError
    \/ EnumReconcile
    \/ EnumEnd
    \/ LiveStart
    \/ \E s \in DOMAIN chk : ChkSend(s)
    \/ \E s \in DOMAIN chk : ChkPrimaryHttp(s)
    \/ \E s \in DOMAIN chk : ChkPrimaryHttps(s)
    \/ LiveJoin
    \/ LiveEnd
    \/ JsStart
    \/ JsPageSend
    \/ JsPageRecv
    \/ JsScriptNext
    \/ JsScriptRecv
    \/ JsSleep
    \/ JsEnd
    \/ ProbeStart
    \/ ProbeSend
    \/ ProbeRecv
    \/ ProbeEval
    \/ ProbeSleep
    \/ ProbeEnd
    \/ ArchInit
    \/ ArchSnapshot
    \/ ArchIterFail
    \/ ArchEnd
    \/ SaveResults
    \/ DisplayResults

Spec == Init /\ [][Next]_vars

(***************************************************************************)
(* Progress.  run() is one coroutine that the event loop resumes whenever   *)
(* what it awaits is over, so a step of the program itself that can be      *)
(* taken is taken (ProgramStep).  The other steps wait for the world: the   *)
(* enumerator writes a line, closes its output, exits or dies of the signal *)
(* (ProcessStep); a request comes to a response, an error or its timeout    *)
(* (RequestStep); the archive yields a snapshot, fails or is exhausted      *)
(* (ArchiveStep).  SpecLive is Spec for the runs in which the world does    *)
(* each of these in the end.                                                *)
(***************************************************************************)
ProcessStep ==
    \/ EnumReadLine
    \/ EnumEOF
    \/ EnumWaited
    \/ EnumReadError

RequestStep ==
    \/ \E s \in DOMAIN chk : ChkPrimaryHttp(s)
    \/ \E s \in DOMAIN chk : ChkPrimaryHttps(s)
    \/ JsPageRecv
    \/ JsScriptRecv
    \/ ProbeRecv

ArchiveStep ==
    \/ ArchInit
    \/ ArchSnapshot
    \/ ArchIterFail
    \/ ArchEnd

ProgramStep ==
    \/ Run
    \/ EnumSpawn
    \/ EnumTimeout
    \/ EnumReconcile
    \/ EnumEnd
    \/ LiveStart
    \/ \E s \in DOMAIN chk : ChkSend(s)
    \/ LiveJoin
    \/ LiveEnd
    \/ JsStart
    \/ JsPageSend
    \/ JsScriptNext
    \/ JsSleep
    \/ JsEnd
    \/ ProbeStart
    \/ ProbeSend
    \/ ProbeEval
    \/ ProbeSleep
    \/ ProbeEnd
    \/ SaveResults
    \/ DisplayResults

Fairness ==
    /\ WF_vars(ProgramStep)
    /\ WF_vars(ProcessStep)
    /\ WF_vars(RequestStep)
    /\ WF_vars(ArchiveStep)

SpecLive == Init /\ [][Next]_vars /\ Fairness

(***************************************************************************)
(* The connections of the liveness stage, with the tasks counted.  Which   *)
(* subdomain a task belongs to is left out: pool counts the tasks that     *)
(* wait for a connection of the session for their http request (queued1),  *)
(* that have this request in flight (active1), the same for https (queued2, *)
(* active2), the task that is inside the fallback loop (blocking) and the   *)
(* tasks that have returned (done).                                        *)
(***************************************************************************)
\* the subdomains of the run
MaxTasks == 51

\* connections of the session that are acquired
PoolOpen == pool.active1 + pool.active2

\* lines 138-152: the session is made and every task is launched; each asks
\* the connector for a connection
InitPool ==
    /\ InitRun
    /\ pool = [NoPool EXCEPT !.queued1 = MaxTasks]

\* line 161, http: the connector hands a task a connection when fewer than
\* limit are acquired
PoolAcquireHttp ==
    /\ pool.blocking = 0
    /\ pool.queued1 > 0
    /\ PoolOpen < ConnLimit
    /\ pool' = [pool EXCEPT !.queued1 = @ - 1, !.active1 = @ + 1]
    /\ UNCHANGED stageVars

\* lines 165-171, http: a status below 400; the task returns and its
\* connection is released
PoolHttpOk ==
    /\ pool.blocking = 0
    /\ pool.active1 > 0
    /\ pool' = [pool EXCEPT !.active1 = @ - 1, !.done = @ + 1]
    /\ UNCHANGED stageVars

\* lines 172-177, http: a status of 400 or more or an exception; the
\* connection is released and the loop asks for one for https
PoolHttpFail ==
    /\ pool.blocking = 0
    /\ pool.active1 > 0
    /\ pool' = [pool EXCEPT !.active1 = @ - 1, !.queued2 = @ + 1]
    /\ UNCHANGED stageVars

\* lines 161-163 and 175, http: timeout=15 runs out while the task still
\* waits for a connection, every connection being acquired
PoolHttpTimeout ==
    /\ pool.blocking = 0
    /\ pool.queued1 > 0
    /\ PoolOpen = ConnLimit
    /\ pool' = [pool EXCEPT !.queued1 = @ - 1, !.queued2 = @ + 1]
    /\ UNCHANGED stageVars

\* the connector of a session made without a limit
PoolAcquireHttps_NoLimit ==
    /\ pool.blocking = 0
    /\ pool.queued2 > 0
    /\ pool' = [pool EXCEPT !.queued2 = @ - 1, !.active2 = @ + 1]
    /\ UNCHANGED stageVars

\* line 161, https: the connector hands the task a connection
PoolAcquireHttps ==
    /\ pool.blocking = 0
    /\ pool.queued2 > 0
    /\ PoolOpen < ConnLimit
    /\ pool' = [pool EXCEPT !.queued2 = @ - 1, !.active2 = @ + 1]
    /\ UNCHANGED stageVars

\* lines 165-171, https: a status below 400
PoolHttpsOk ==
    /\ pool.blocking = 0
    /\ pool.active2 > 0
    /\ pool' = [pool EXCEPT !.active2 = @ - 1, !.done = @ + 1]
    /\ UNCHANGED stageVars

\* lines 172-181, https: a status of 400 or more or an exception; the
\* connection is released and the task goes on, without a suspension, to
\* requests.head, which holds the event loop until it returns
PoolHttpsFail ==
    /\ pool.blocking = 0
    /\ pool.active2 > 0
    /\ pool' = [pool EXCEPT !.active2 = @ - 1, !.blocking = 1]
    /\ UNCHANGED stageVars

\* lines 161-163 and 175-181, https: the timeout runs out while the task
\* still waits for a connection; the fallback requests follow
PoolHttpsTimeout ==
    /\ pool.blocking = 0
    /\ pool.queued2 > 0
    /\ PoolOpen = ConnLimit
    /\ pool' = [pool EXCEPT !.queued2 = @ - 1, !.blocking = 1]
    /\ UNCHANGED stageVars

\* lines 179-194: the fallback requests are over, one after the other; the
\* task returns
PoolFallbackEnd ==
    /\ pool.blocking = 1
    /\ pool' = [pool EXCEPT !.blocking = 0, !.done = @ + 1]
    /\ UNCHANGED stageVars

NextPool ==
    \/ PoolAcquireHttp
    \/ PoolHttpOk
    \/ PoolHttpFail
    \/ PoolHttpTimeout
    \/ PoolAcquireHttps
    \/ PoolHttpsOk
    \/ PoolHttpsFail
    \/ PoolHttpsTimeout
    \/ PoolFallbackEnd

SpecPool == InitPool /\ [][NextPool]_vars


(***************************************************************************)
(* Properties.                                                             *)
(***************************************************************************)
\* the log of a run that went through every stage
FullLog ==
    << <<"start", "enumerate">>, <<"finish", "enumerate">>,
       <<"start", "liveness">>,  <<"finish", "liveness">>,
       <<"start", "js">>,        <<"finish", "js">>,
       <<"start", "probe">>,     <<"finish", "probe">>,
       <<"start", "archive">>,   <<"finish", "archive">>,
       <<"start", "persist">>,   <<"finish", "persist">>,
       <<"start", "display">>,   <<"finish", "display">> >>

\* C1: the stages start in the order enumerate, liveness, js, probe, archive,
\* persist, display; when a stage starts, every stage before it has started
\* and finished once and no other stage has started; a run that returns has
\* gone through all seven.
C1_StageOrder ==
    /\ \A i \in 1..Len(log) :
          log[i][1] = "start" => /\ i <= Len(FullLog)
                                 /\ SubSeq(log, 1, i) = SubSeq(FullLog, 1, i)
    /\ pc = "done" => log = FullLog

C1_Witness == pc = "done" /\ log = FullLog /\ live_subdomains # {}

\* the stages that come before the report is written
Collecting == {"enumerate", "liveness", "js", "probe", "archive"}

\* C2: the report is written at most once and only after the five collecting
\* stages have finished; a run that is past the persist stage has written it
\* once; and the only exception that ends a run is the one of the persist
\* stage (the file cannot be written), whatever failed in the earlier stages.
C2_ReportOnce ==
    /\ writes <= 1
    /\ writes = 1 => /\ report.written
                     /\ \A st \in Collecting : <<"finish", st>> \in SeqToSet(log)
    /\ pc \in {"display", "done"} => writes = 1
    /\ pc = "aborted" => log[Len(log)] = <<"raise", "persist">>

\* a report written in a run where one subdomain answered no liveness request
\* and the screenshot of the other failed
C2_Witness ==
    /\ writes = 1
    /\ Cardinality(subdomains) = 2
    /\ Cardinality(live_subdomains) = 1
    /\ DOMAIN screenshots = {}

\* the authority of a hostname
HostAuthority(h) == Netloc(LiveUrl("http", h))

\* C3: every subdomain, every JS endpoint URL, every archive endpoint URL and
\* every finding URL has an authority that ends with the target domain.
C3_ScopeFilter ==
    /\ \A h \in subdomains : EndsWith(HostAuthority(h), Domain)
    /\ \A i \in 1..Len(js_endpoints) : EndsWith(Netloc(js_endpoints[i].url), Domain)
    /\ \A u \in endpoints : EndsWith(Netloc(u), Domain)
    /\ \A i \in 1..Len(vulnerabilities) : EndsWith(Netloc(vulnerabilities[i].url), Domain)

C3_Witness ==
    /\ subdomains # {}
    /\ js_endpoints # <<>>
    /\ endpoints # {}
    /\ vulnerabilities # <<>>

\* C4: every hostname in the subdomain set is a descendant of the target: it
\* is the target or ends with "." and the target.
C4_Descendants == \A h \in subdomains : IsDescendant(h)

\* C5: the live-host set never holds both http://<s> and https://<s>, and a
\* subdomain whose http request on the session came to a status below 400 has
\* http://<s> as its live host.
C5_FirstSchemeWins ==
    /\ \A h \in subdomains :
          ~ (LiveUrl("http", h) \in live_subdomains /\ LiveUrl("https", h) \in live_subdomains)
    /\ \A h \in DOMAIN attempts :
          (attempts[h] # <<>> /\ attempts[h][1] = Attempt("primary", "http", "ok"))
              => /\ LiveUrl("http", h) \in live_subdomains
                 /\ LiveUrl("https", h) \notin live_subdomains

\* the liveness stage is over; one subdomain is live over http at the first
\* request, another over https
C5_Witness ==
    /\ pc = "js"
    /\ at = "call"
    /\ \E h \in DOMAIN attempts : attempts[h][1] = Attempt("primary", "http", "ok")
    /\ \E h \in DOMAIN attempts : LiveUrl("https", h) \in live_subdomains

\* the requests of the log for one combination
RequestsFor(h, class, payload, param) ==
    {i \in 1..Len(requests) :
        /\ requests[i].host = h
        /\ requests[i].class = class
        /\ requests[i].payload = payload
        /\ requests[i].param = param}

RECURSIVE SumLen(_)
SumLen(lists) == IF lists = <<>> THEN 0 ELSE Len(Head(lists)) + SumLen(Tail(lists))

\* payloads of all classes together
PayloadCount == SumLen([i \in 1..Len(Classes) |-> Payloads(Classes[i])])

\* C6: no combination of live host, class, payload and parameter name is
\* requested twice; when the probing stage returns each combination was
\* requested once, |hosts| * (payloads of all classes) * |params| requests
\* in all.
C6_OneRequestEach ==
    /\ \A i, j \in 1..Len(requests) : requests[i] = requests[j] => i = j
    /\ (pc = "archive" /\ at = "call") =>
          /\ \A h \in live_subdomains :
                \A c \in 1..Len(Classes) :
                    \A p \in 1..Len(Payloads(Classes[c])) :
                        \A q \in 1..Len(Params) :
                            Cardinality(RequestsFor(h, Classes[c],
                                Payloads(Classes[c])[p], Params[q])) = 1
          /\ Len(requests) = Cardinality(live_subdomains) * PayloadCount * Len(Params)

\* the probing stage has returned after probing two hosts, with a finding
C6_Witness ==
    /\ pc = "archive"
    /\ at = "call"
    /\ Cardinality(live_subdomains) = 2
    /\ Len(requests) = 2 * PayloadCount * Len(Params)
    /\ vulnerabilities # <<>>

\* C7: at most one probe request is in flight; a probe request is sent only
\* when none is in flight and, after the first of the stage, when the pacing
\* delay has passed since the last one completed.
C7_Serialized ==
    /\ [](inflight <= 1)
    /\ [][Len(requests') > Len(requests) =>
            /\ inflight = 0
            /\ requests # <<>> => idle >= RateLimit]_vars

\* a request in flight that follows a request that came to nothing
C7_Witness ==
    /\ pr_phase = "wait"
    /\ inflight = 1
    /\ Len(requests) >= 2
    /\ idle >= RateLimit
    /\ vulnerabilities = <<>>

\* the probe in hand is of class and its response is about to be tested
Testing(class) ==
    /\ pc = "probe"
    /\ pr_phase = "eval"
    /\ Current.class = class
    /\ resp.kind = "response"

Redirects == resp.status \in {301, 302} /\ LocationMatches(resp.location)

NoNewFinding(type) ==
    \/ vulnerabilities' = vulnerabilities
    \/ vulnerabilities'[Len(vulnerabilities')].type # type

RedirectFinding ==
    Finding("openredirect", TestUrl(pr_cur, Current), Current.payload, "medium")

LastFinding == vulnerabilities[Len(vulnerabilities)]

C10_SstiFinding ==
    [][(/\ Testing("ssti")
        /\ \/ Contains(resp.text, <<"49">>)
           \/ Contains(resp.text, <<"7777777">>))
          => /\ Len(vulnerabilities') = Len(vulnerabilities) + 1
             /\ vulnerabilities'[Len(vulnerabilities')].type = "ssti"
             /\ vulnerabilities'[Len(vulnerabilities')].severity = "critical"]_vars

\* in-scope, non-empty stripped lines of a collection of lines
Kept(lines) == {l \in lines : l # <<>> /\ EndsWith(l, Domain)}

\* C11: once the timeout has fired the stage sends the termination signal and
\* goes on only when the process is dead; from then to the end of the stage
\* nothing is raised and every in-scope hostname read from stdout is in the
\* subdomain set.
C11_TimeoutKeepsParsed ==
    /\ (pc = "enumerate" /\ at = "wait") => proc = "terminating"
    /\ proc \in {"terminating", "terminated"} =>
           /\ pc \in {"enumerate", "liveness"}
           /\ Kept(stdoutLines) \subseteq subdomains
           /\ <<"raise", "enumerate">> \notin SeqToSet(log)

\* the stage has returned after a timeout that followed an accepted line
C11_Witness ==
    /\ pc = "liveness"
    /\ at = "call"
    /\ proc = "terminated"
    /\ Kept(stdoutLines) # {}
    /\ Kept(stdoutLines) \subseteq subdomains

\* C12: an exception in the enumeration stage takes nothing out of the
\* subdomain set; the stage then returns to run() with the set as it is, and
\* the step after the return is the start of the liveness stage.
C12_EnumCatchesAll ==
    [][/\ (pc = "enumerate" /\ at' = "except") => subdomains \subseteq subdomains'
       /\ (pc = "enumerate" /\ at = "except") =>
              /\ pc' = "liveness"
              /\ at' = "call"
              /\ log' = Append(log, <<"finish", "enumerate">>)
              /\ subdomains' = subdomains
       /\ (pc = "liveness" /\ at = "call") =>
              log' = Append(log, <<"start", "liveness">>)]_vars

\* the handler is reached with a subdomain already accepted
C12_Witness ==
    /\ pc = "enumerate"
    /\ at = "except"
    /\ subdomains # {}

\* the stripped lines of the result file
FileLines == {Strip(outfile[i]) : i \in 1..Len(outfile)}

\* C20: when the stage ends without an exception and the result file exists,
\* every in-scope non-empty line of the file and every in-scope hostname read
\* from stdout is in the subdomain set, whatever the return code.
C20_FileMerged ==
    (pc = "enumerate" /\ at = "total") =>
        /\ proc \in {"exited", "terminated"}
        /\ outfile # NoFile => Kept(FileLines) \subseteq subdomains
        /\ Kept(stdoutLines) \subseteq subdomains

\* a failed process that printed nothing in scope and left a file with a
\* hostname
C20_Witness ==
    /\ pc = "enumerate"
    /\ at = "total"
    /\ returncode = "1"
    /\ Kept(stdoutLines) = {}
    /\ outfile # NoFile
    /\ Kept(FileLines) # {}
    /\ Kept(FileLines) \subseteq subdomains

\* C13 as stated: whenever the archive stage is in its handler, after a
\* failure of the initialization or of the iteration, the archive endpoint
\* set is empty and nothing was raised.
C13_Stated ==
    (pc = "archive" /\ at = "except") =>
        /\ endpoints = {}
        /\ <<"raise", "archive">> \notin SeqToSet(log)

\* C13: a failure of the initialization or of the iteration leaves the
\* archive endpoint set as it was (empty when no snapshot had been taken);
\* the stage then returns with that set, raising nothing, and run() is at the
\* persist stage.
C13_ArchiveFailure ==
    [][/\ (pc = "archive" /\ at' = "except") =>
              /\ endpoints' = endpoints
              /\ snapshots' = 0 => endpoints' = {}
       /\ (pc = "archive" /\ at = "except") =>
              /\ pc' = "persist"
              /\ at' = "call"
              /\ log' = Append(log, <<"finish", "archive">>)
              /\ endpoints' = endpoints]_vars

\* the iteration failed after a snapshot had been accepted
C13_Witness ==
    /\ pc = "archive"
    /\ at = "except"
    /\ snapshots > 0
    /\ endpoints # {}

\* C14: once the summary is shown, each of its counts is the size of the
\* collection of the same name in the persisted report, and the lists of the
\* report hold the elements of the sets, each once.
C14_SummaryMatchesReport ==
    summary.shown =>
        /\ report.written
        /\ summary.subdomains = Len(report.subdomains)
        /\ summary.live_subdomains = Len(report.live_subdomains)
        /\ summary.wayback_endpoints = Len(report.wayback_endpoints)
        /\ summary.js_endpoints = Len(report.js_endpoints)
        /\ summary.vulnerabilities = Len(report.vulnerabilities)
        /\ summary.screenshots = Cardinality(DOMAIN report.screenshots)
        /\ SeqToSet(report.subdomains) = subdomains
        /\ SeqToSet(report.live_subdomains) = live_subdomains
        /\ SeqToSet(report.wayback_endpoints) = endpoints
        /\ Cardinality(subdomains) = Len(report.subdomains)
        /\ Cardinality(live_subdomains) = Len(report.live_subdomains)
        /\ Cardinality(endpoints) = Len(report.wayback_endpoints)

\* a summary of a run that collected something of every kind
C14_Witness ==
    /\ summary.shown
    /\ summary.subdomains = 2
    /\ summary.live_subdomains = 2
    /\ summary.wayback_endpoints = 1
    /\ summary.js_endpoints = 1
    /\ summary.vulnerabilities = 1
    /\ summary.screenshots = 1

\* the liveness tasks that exist before and after a step
Tasks == DOMAIN attempts \cap DOMAIN attempts'

\* C16: in the liveness stage a step issues at most one request, and every
\* request but the first of the stage is issued when the sleeps have put at
\* least the pacing delay after the request before it.
C16_LivenessPaced ==
    [][\A s \in Tasks :
          Len(attempts'[s]) > Len(attempts[s]) =>
              /\ Len(attempts'[s]) = Len(attempts[s]) + 1
              /\ (\E t \in Tasks : attempts[t] # <<>>) => gap >= RateLimit]_vars

\* the live hosts whose round of the loop is over
JsFinished ==
    IF js_phase = "idle" THEN live_subdomains \ js_todo
    ELSE {u \in live_subdomains \ js_todo : u # js_cur}

\* C17: the per-host work units of the JS stage are launched together: no
\* host's extraction is over while the page of another live host has not
\* been requested.
C17_JsConcurrent ==
    (pc = "js" /\ at = "loop" /\ JsFinished # {}) => js_todo = {}

\* the order of the attempts of _check_live
AttemptOrder ==
    << <<"primary", "http">>, <<"primary", "https">>,
       <<"fallback", "http">>, <<"fallback", "https">> >>

\* the live-host URLs of a subdomain
LiveHostsOf(h) == {LiveUrl("http", h), LiveUrl("https", h)} \cap live_subdomains

\* C18: the attempts of a subdomain follow the fixed order; every attempt
\* before the last one failed; a task that is over has a settled last attempt,
\* has the URL of that attempt as its live host when it succeeded, and has no
\* live host exactly when all four attempts were made and failed.
C18_AttemptOrder ==
    \A h \in DOMAIN attempts :
        /\ Len(attempts[h]) <= 4
        /\ \A i \in 1..Len(attempts[h]) :
              /\ attempts[h][i].client = AttemptOrder[i][1]
              /\ attempts[h][i].protocol = AttemptOrder[i][2]
              /\ i < Len(attempts[h]) => attempts[h][i].result = "fail"
        /\ chk[h] = "done" =>
              /\ attempts[h] # <<>>
              /\ attempts[h][Len(attempts[h])].result \in {"ok", "fail"}
              /\ attempts[h][Len(attempts[h])].result = "ok" =>
                     LiveHostsOf(h) = {LiveUrl(attempts[h][Len(attempts[h])].protocol, h)}
              /\ LiveHostsOf(h) = {} <=>
                     /\ Len(attempts[h]) = 4
                     /\ attempts[h][4].result = "fail"

\* one subdomain went through all four attempts and failed, another is live
\* by its last attempt
C18_Witness ==
    /\ \E h \in DOMAIN attempts :
          /\ chk[h] = "done"
          /\ Len(attempts[h]) = 4
          /\ attempts[h][4].result = "fail"
          /\ LiveHostsOf(h) = {}
    /\ \E h \in DOMAIN attempts :
          /\ chk[h] = "done"
          /\ Len(attempts[h]) = 4
          /\ attempts[h][4].result = "ok"
          /\ LiveHostsOf(h) = {LiveUrl("https", h)}

\* C19: every screenshot key is a live host; a step that records a live host
\* ends the task of its subdomain with a successful last attempt and stays in
\* the stage, whether or not the hook stored a screenshot; the screenshot map
\* changes only in such a step and only by the key of the host just recorded.
C19_ScreenshotHook ==
    /\ [](DOMAIN screenshots \subseteq live_subdomains)
    /\ [][/\ live_subdomains' # live_subdomains =>
              /\ pc' = pc
              /\ \E s \in Tasks :
                    /\ chk[s] # "done"
                    /\ chk'[s] = "done"
                    /\ attempts'[s][Len(attempts'[s])].result = "ok"
                    /\ live_subdomains' =
                           live_subdomains \cup
                               {LiveUrl(attempts'[s][Len(attempts'[s])].protocol, s)}
          /\ screenshots' # screenshots =>
              /\ DOMAIN screenshots' \ DOMAIN screenshots =
                     live_subdomains' \ live_subdomains
              /\ Cardinality(live_subdomains' \ live_subdomains) = 1
              /\ \A u \in DOMAIN screenshots : screenshots'[u] = screenshots[u]]_vars

\* of two live hosts one has a screenshot, the hook failed for the other
C19_Witness ==
    /\ pc = "liveness"
    /\ Cardinality(live_subdomains) = 2
    /\ Cardinality(DOMAIN screenshots) = 1

\* C15 as stated: the connections of the session and of the fallback client
\* that are open together are at most the limit of the session.
C15_Stated == PoolOpen + pool.blocking <= ConnLimit

\* C15: the acquired connections of the session are at most its limit; the
\* fallback client has at most one request open, outside the session, so at
\* most one connection more than the limit is open.
C15_SessionCeiling ==
    /\ PoolOpen <= ConnLimit
    /\ pool.blocking <= 1
    /\ PoolOpen + pool.blocking <= ConnLimit + 1

\* the session is at its limit while a fallback request is open
C15_Witness ==
    /\ PoolOpen = ConnLimit
    /\ pool.blocking = 1

\* the script the loop of line 219 stands at is out of scope
OutOfScopeScript ==
    /\ pc = "js"
    /\ js_phase \in {"scripts", "script"}
    /\ js_scripts # <<>>
    /\ ~EndsWith(Netloc(Head(js_scripts)), Domain)

\* C21: every script requested in the JS stage has a resolved authority that
\* ends with the target domain; a script whose resolved authority is out of
\* scope is passed over without a request and without any endpoint being
\* recorded, and endpoints are recorded only on the arrival of a requested,
\* in-scope script.
C21_ScriptScope ==
    [][/\ \A u \in fetched' : EndsWith(Netloc(u), Domain)
       /\ OutOfScopeScript =>
            /\ js_phase = "scripts"
            /\ fetched' = fetched
            /\ js_endpoints' = js_endpoints
            /\ js_scripts' = Tail(js_scripts)
            /\ js_phase' = "scripts"
       /\ js_endpoints' # js_endpoints =>
            /\ pc = "js"
            /\ js_phase = "script"
            /\ Head(js_scripts) \in fetched
            /\ EndsWith(Netloc(Head(js_scripts)), Domain)]_vars

\* a page names an out-of-scope script after an in-scope script of an
\* earlier page was requested and mined
C21_Witness ==
    /\ OutOfScopeScript
    /\ fetched # {}
    /\ js_endpoints # <<>>

\* the severity the specification fixes for each type of finding
SeverityOf ==
    [openredirect |-> "medium", pathtraversal |-> "high", xss |-> "high",
     ssti |-> "critical"]

\* the finding is well formed: its type is a class, its severity is the one
\* of its type and its payload is one of the payloads of that class
WellTyped(v) ==
    /\ v.type \in SeqToSet(Classes)
    /\ v.severity = SeverityOf[v.type]
    /\ v.payload \in SeqToSet(AllPayloads[v.type])

\* the finding was made by the request q
MadeBy(v, q) ==
    /\ q.class = v.type
    /\ q.payload = v.payload
    /\ q.url = v.url

\* C22: every finding has the severity of its type, its type is the class of
\* the payload of the request that produced it, a request appends at most one
\* finding (and only when its response is evaluated), and while the probe
\* stage runs there are never more findings than requests sent.
C22_FindingsWellFormed ==
    [][/\ \A i \in 1..Len(vulnerabilities') : WellTyped(vulnerabilities'[i])
       /\ pc' = "probe" =>
            /\ Len(vulnerabilities') <= Len(requests')
            /\ \A i \in 1..Len(vulnerabilities') :
                 \E j \in 1..Len(requests') :
                     MadeBy(vulnerabilities'[i], requests'[j])
       /\ vulnerabilities' # vulnerabilities =>
            /\ pc = "probe"
            /\ pr_phase = "eval"
            /\ Len(vulnerabilities') = Len(vulnerabilities) + 1
            /\ SubSeq(vulnerabilities', 1, Len(vulnerabilities)) = vulnerabilities
            /\ MadeBy(vulnerabilities'[Len(vulnerabilities')],
                      requests[Len(requests)])]_vars

\* two findings of different types are on the list and more requests than
\* findings have been sent
C22_Witness ==
    /\ pc = "probe"
    /\ Len(vulnerabilities) = 2
    /\ vulnerabilities[1].type # vulnerabilities[2].type
    /\ Len(requests) > Len(vulnerabilities)

\* the literal is an absolute URL: it has a scheme and an authority
Absolute(lit) == SchemeLen(lit) > 0 /\ Netloc(lit) # <<>>

\* the literal is relative and does not start with "/"
PlainRelative(lit) == SchemeLen(lit) = 0 /\ Head(lit) # "/"

\* the condition under which the literal lit of a script of page yields the
\* recorded URL url
Recordable(url, page, lit) ==
    \/ /\ Absolute(lit)
       /\ EndsWith(Netloc(lit), Domain)
       /\ url = lit
    \/ /\ Head(lit) = "/"
       /\ url = UrlJoin(page, lit)
       /\ EndsWith(Netloc(url), Domain)

\* the relative literals a script can carry: an api/ path, a graphql/ path,
\* a query-bearing string and a path of several segments
RelativeLiterals == {lit \in Literals : PlainRelative(lit) /\ Captured(lit) # <<>>}

\* C23: the arrival of a script records an endpoint only for a literal that
\* is an absolute URL with an in-scope authority or that starts with "/" and
\* resolves against the page URL to an in-scope authority; a relative literal
\* that does not start with "/" has an empty authority and, whatever the page
\* it is found on, adds nothing to the list.
C23_RecordedLiterals ==
    [][/\ js_endpoints' # js_endpoints =>
            /\ js_phase = "script"
            /\ Len(js_endpoints') > Len(js_endpoints)
            /\ SubSeq(js_endpoints', 1, Len(js_endpoints)) = js_endpoints
            /\ \A i \in (Len(js_endpoints) + 1)..Len(js_endpoints') :
                 \E lit \in Literals : Recordable(js_endpoints'[i].url, js_cur, lit)
       /\ js_phase = "script" =>
            \A lit \in RelativeLiterals :
                /\ Netloc(lit) = <<>>
                /\ Extract(js_endpoints, js_cur, lit) = js_endpoints
                /\ \A i \in 1..Len(js_endpoints') : js_endpoints'[i].url # lit]_vars

\* one endpoint was recorded from an absolute literal and one from a literal
\* that starts with "/", among scripts that can carry each of the four kinds
\* of relative literal
C23_Witness ==
    /\ pc = "js"
    /\ Len(js_endpoints) = 2
    /\ js_endpoints[1].url \in Literals
    /\ js_endpoints[2].url \notin Literals
    /\ Cardinality(RelativeLiterals) = 4

\* the run has written the report and displayed the summary
Reported == pc = "done" /\ report.written /\ writes = 1 /\ summary.shown

\* the run has ended in save_results, whose open() raised
Unwritable ==
    /\ pc = "aborted"
    /\ log[Len(log)] = <<"raise", "persist">>
    /\ ~report.written
    /\ ~summary.shown

\* nothing is persisted while a collecting stage runs, and a written report
\* comes after the end of the archive stage
PersistedLast ==
    /\ pc \in Collecting \cup {"new"} => ~report.written /\ writes = 0
    /\ report.written \/ writes > 0 => <<"finish", "archive">> \in SeqToSet(log)

====
